---- MODULE Spec2Model ----
(***************************************************************************)
(* Debt-tab ledger of the water-refilling backend                          *)
(* (src/src/modules/debts/debts.service.ts).                               *)
(*                                                                         *)
(* Money is a JavaScript double in the source.  The model keeps money on   *)
(* a grid of 0.001 currency units, so the source's EPSILON = 0.005 is 5    *)
(* grid units and every comparison against EPSILON keeps its strictness.   *)
(*                                                                         *)
(* The store is PostgreSQL behind Prisma.  prisma.$transaction(fn) is an   *)
(* interactive transaction at the default isolation level READ COMMITTED:  *)
(* every statement reads the rows committed when the statement starts      *)
(* plus the transaction's own writes; rows written by the transaction are  *)
(* invisible to the others until commit; an UPDATE of a row waits while    *)
(* another open transaction has updated the same row and then overwrites   *)
(* the columns named in `data' on the newest committed version of the row. *)
(* No statement of the service takes an explicit lock, no isolation level  *)
(* is passed, and the schema has no unique index on open tabs.             *)
(***************************************************************************)
EXTENDS Integers, Sequences, FiniteSets, TLC

VARIABLES tabs, trxs, auditLog, nextTabId, nextTrxId, calls,
          pc, op, unitPrice, tab, created, trx, upd, currentBalance, result,
          request, sales, nextSaleId, saleData, existingSale, sale, users, userData,
          history

vars == <<tabs, trxs, auditLog, nextTabId, nextTrxId, calls,
          pc, op, unitPrice, tab, created, trx, upd, currentBalance, result,
          request, sales, nextSaleId, saleData, existingSale, sale, users, userData,
          history>>

store == <<tabs, trxs>>
locals == <<unitPrice, tab, created, trx, upd, currentBalance>>
ids == <<nextTabId, nextTrxId>>

\* The Sale table and the frames of the sales service, the User table and the
\* frames of the users service, and the request a single caller makes: no
\* statement of the debts service reads or writes them.
salesVars == <<sales, nextSaleId, saleData, existingSale, sale>>
usersVars == <<users, userData>>
callers == <<request, history>>
outside == <<callers, salesVars, usersVars>>

\* ---------------------------------------------------------------- bounds
\* Number of service calls made in one behaviour.
MaxCalls == 2

\* Concurrent requests in flight (Express serves requests concurrently).
Procs == {1, 2}

\* ------------------------------------------------------------- constants
\* const EPSILON = 0.005, in grid units of 0.001.
EPSILON == 5

\* A nullable column holding no value.
NULL == 0 - 1

\* Math.max(a, b)
Max(a, b) == IF a >= b THEN a ELSE b

\* Math.abs(a)
Abs(a) == IF a < 0 THEN 0 - a ELSE a

\* ------------------------------------------------------------ input sets
\* Rows of the Customer table: c1 uses the global price, c2 has an override,
\* c3 is inactive; any other id is unknown.
customer == [c1 |-> [active |-> TRUE, customUnitPrice |-> NULL],
             c2 |-> [active |-> TRUE, customUnitPrice |-> 3],
             c3 |-> [active |-> FALSE, customUnitPrice |-> NULL]]

CustomerIds == {"c1", "c2", "c3", "c0"}

\* Customers the payment, adjustment and mark-paid calls are made for (these
\* calls never read the Customer table).
LedgerCustomerIds == {"c1", "c2"}

\* Values the Setting row `unitPrice' (a string column, written by the
\* settings module) can hold when a charge reads it; NoSetting is a missing
\* row.
NoSetting == <<"-">>
SettingValues == {<<"1", "0">>, <<"0">>, <<"a">>, <<>>, NoSetting}

ContainersIn == {0, 1, 2}
PaymentIn == {0, 5, 7, 15}
AdjustmentIn == {0, 3, 7, 0 - 10}
FinalPaymentIn == {NULL, 0, 7, 10}
ReasonIn == {<<>>, <<" ">>, <<"o", "k">>}
\* transactionDate of a charge, payment or adjustment, and the later date a
\* mark-paid call carries (dates are day numbers).
TransactionDateIn == {1}
MarkPaidDateIn == {2}
UserId == "u1"

\* ----------------------------------------------------------------- rows
NoTab == [id |-> 0, customerId |-> "", status |-> "", totalBalance |-> 0,
          closedAt |-> NULL]

\* adjustmentReason of a row that has none.
NoReason == <<"-">>

NoTrx == [id |-> 0, debtTabId |-> 0, transactionType |-> "", containers |-> NULL,
          unitPrice |-> NULL, amount |-> 0, balanceAfter |-> 0,
          adjustmentReason |-> NoReason, transactionDate |-> 0, enteredById |-> ""]

NoOp == [kind |-> "", customerId |-> "", containers |-> 0, amount |-> 0,
         reason |-> NoReason, transactionDate |-> 0, finalPayment |-> NULL]

NoResult == [status |-> 0, message |-> "", transactionId |-> 0, tabId |-> 0]

\* No request chosen by the single caller.
NoRequest == [customerId |-> "", containers |-> 0, transactionDate |-> 0,
              setting |-> NoSetting]

\* A Sale.date: the calendar day (UTC) and the time of day, in milliseconds
\* since midnight.
NoDate == [day |-> 0, time |-> 0]

NoSale == [id |-> 0, customerId |-> "", date |-> NoDate, quantity |-> 0,
           unitPrice |-> 0, total |-> 0, paymentType |-> ""]

NoSaleData == [customerId |-> "", date |-> NoDate, quantity |-> 0, unitPrice |-> 0,
               paymentType |-> "", adminOverride |-> FALSE]

NoUserData == [username |-> "", role |-> ""]

\* No history read yet.
NoHistory == [customerId |-> "", tabs |-> <<>>, transactions |-> <<>>, done |-> FALSE]

\* ------------------------------------------------------- pure functions
Digits == [c \in {"0", "1", "2", "3", "4", "5", "6", "7", "8", "9"} |->
             CASE c = "0" -> 0 [] c = "1" -> 1 [] c = "2" -> 2 [] c = "3" -> 3
               [] c = "4" -> 4 [] c = "5" -> 5 [] c = "6" -> 6 [] c = "7" -> 7
               [] c = "8" -> 8 [] c = "9" -> 9]

RECURSIVE ParseDigits(_, _)
ParseDigits(s, acc) ==
  IF s = <<>> \/ Head(s) \notin DOMAIN Digits THEN acc
  ELSE ParseDigits(Tail(s), acc * 10 + Digits[Head(s)])

IsSpace(c) == c = " "

RECURSIVE TrimStart(_)
TrimStart(s) == IF s # <<>> /\ IsSpace(Head(s)) THEN TrimStart(Tail(s)) ELSE s

RECURSIVE TrimEnd(_)
TrimEnd(s) ==
  IF s # <<>> /\ IsSpace(s[Len(s)]) THEN TrimEnd(SubSeq(s, 1, Len(s) - 1)) ELSE s

\* parseFloat(s): leading white space is skipped, then an optional sign and
\* the longest run of digits are read and whatever follows is ignored; NaN
\* when no digit is found there.  (The grid has no fractions, so "." and
\* exponents are not in the alphabet.)
parseFloat(s) ==
  LET t == TrimStart(s)
      neg == t # <<>> /\ Head(t) = "-"
      u == IF neg THEN Tail(t) ELSE t
  IN IF u = <<>> \/ Head(u) \notin DOMAIN Digits
     THEN [finite |-> FALSE, num |-> 0]
     ELSE [finite |-> TRUE, num |-> IF neg THEN 0 - ParseDigits(u, 0)
                                    ELSE ParseDigits(u, 0)]

\* String.prototype.trim
trim(s) == TrimEnd(TrimStart(s))

\* ----------------------------------------------------------------- store
\* OpenTabs without the status filter.
OpenTabs_AnyStatus(c) == {t \in {tabs[i] : i \in DOMAIN tabs} : t.customerId = c}

\* tx.debtTab.findFirst({ where: { customerId, status: OPEN } }): the rows a
\* statement of an open transaction can see that match; with no orderBy the
\* store returns any one of them.
OpenTabs(c) == {t \in {tabs[i] : i \in DOMAIN tabs} :
                  t.customerId = c /\ t.status = "OPEN"}

\* RowLocked when an update locks the whole DebtTab table.
RowLocked_AnyRow(p, id) == \E q \in Procs \ {p} : upd[q] # NoTab

\* The row lock taken when the tab is read and kept to the end of the call.
RowLocked_FromRead(p, id) == \E q \in Procs \ {p} : tab[q].id = id

\* A row is locked while another open transaction has an update pending on it.
RowLocked(p, id) == \E q \in Procs \ {p} : upd[q].id = id

\* The row an UPDATE ... WHERE id = tab.id acts on: the transaction's own
\* insert, else the newest committed version.
CurrentRow(p, id) == IF created[p].id = id THEN created[p] ELSE tabs[id]

\* The store before any call, and the store after one accepted
\* createCharge({customerId: c1, containers: 1, transactionDate: 1}) at the
\* global price 10.
InitStores ==
  { [tabs |-> <<>>, trxs |-> <<>>, auditLog |-> {}, nextTabId |-> 1, nextTrxId |-> 1],
    [tabs |-> <<[id |-> 1, customerId |-> "c1", status |-> "OPEN",
                 totalBalance |-> 10, closedAt |-> NULL]>>,
     trxs |-> <<[id |-> 1, debtTabId |-> 1, transactionType |-> "CHARGE",
                 containers |-> 1, unitPrice |-> 10, amount |-> 10,
                 balanceAfter |-> 10, adjustmentReason |-> NoReason,
                 transactionDate |-> 1, enteredById |-> UserId]>>,
     auditLog |-> {[action |-> "CREATE", entity |-> "DebtTab", entityId |-> 1,
                    userId |-> "system"],
                   [action |-> "CREATE", entity |-> "DebtTransaction", entityId |-> 1,
                    userId |-> UserId]},
     nextTabId |-> 2, nextTrxId |-> 2] }

\* The ledger before any call is in flight, on one of the given stores.
InitLedger(stores) ==
  /\ \E s \in stores :
       /\ tabs = s.tabs
       /\ trxs = s.trxs
       /\ auditLog = s.auditLog
       /\ nextTabId = s.nextTabId
       /\ nextTrxId = s.nextTrxId
  /\ calls = 0
  /\ pc = [p \in Procs |-> "idle"]
  /\ op = [p \in Procs |-> NoOp]
  /\ unitPrice = [p \in Procs |-> 0]
  /\ tab = [p \in Procs |-> NoTab]
  /\ created = [p \in Procs |-> NoTab]
  /\ trx = [p \in Procs |-> NoTrx]
  /\ upd = [p \in Procs |-> NoTab]
  /\ currentBalance = [p \in Procs |-> 0]
  /\ result = NoResult

\* The Sale table holding the given rows, no createSale call in flight.
InitSales(tables) ==
  /\ sales \in tables
  /\ nextSaleId = Len(sales) + 1
  /\ saleData = [p \in Procs |-> NoSaleData]
  /\ existingSale = [p \in Procs |-> NoSale]
  /\ sale = [p \in Procs |-> NoSale]

\* The User table holding the given rows, no createUser call in flight.
InitUsers(tables) ==
  /\ users \in tables
  /\ userData = [p \in Procs |-> NoUserData]

Init ==
  /\ InitLedger(InitStores)
  /\ request = NoRequest
  /\ history = NoHistory
  /\ InitSales({<<>>})
  /\ InitUsers({{}})

\* ------------------------------------------------------------- helpers
Err(code, msg) == [status |-> code, message |-> msg, transactionId |-> 0, tabId |-> 0]

\* The call returns or throws: the request is over and its frame is gone.
\* An exception thrown inside the $transaction callback rolls the
\* transaction back, which here is dropping the pending rows.
Return(p, res) ==
  /\ pc' = [pc EXCEPT ![p] = "idle"]
  /\ op' = [op EXCEPT ![p] = NoOp]
  /\ unitPrice' = [unitPrice EXCEPT ![p] = 0]
  /\ tab' = [tab EXCEPT ![p] = NoTab]
  /\ created' = [created EXCEPT ![p] = NoTab]
  /\ trx' = [trx EXCEPT ![p] = NoTrx]
  /\ upd' = [upd EXCEPT ![p] = NoTab]
  /\ currentBalance' = [currentBalance EXCEPT ![p] = 0]
  /\ result' = res

Goto(p, label) == pc' = [pc EXCEPT ![p] = label]

\* A request is taken by the first free handler (handlers are anonymous).
Free(p) ==
  /\ pc[p] = "idle"
  /\ \A q \in Procs : q < p => pc[q] # "idle"
  /\ calls < MaxCalls

\* prisma.auditLog.create on the global client: its own implicit
\* transaction, committed at once whatever the caller's transaction does.
AuditRow(action, entity, entityId, userId) ==
  [action |-> action, entity |-> entity, entityId |-> entityId, userId |-> userId]

\* tx.debtTransaction.create: the row is pending until commit; its id and
\* createdAt are taken when the statement runs.
NewTrx(p, type, containers, price, amount, balanceAfter, reason) ==
  [id |-> nextTrxId, debtTabId |-> tab[p].id, transactionType |-> type,
   containers |-> containers, unitPrice |-> price, amount |-> amount,
   balanceAfter |-> balanceAfter, adjustmentReason |-> reason,
   transactionDate |-> op[p].transactionDate, enteredById |-> UserId]

\* tx.debtTransaction.create as a step of the open transaction.
InsertTrx(p, row, balance, next) ==
  /\ trx' = [trx EXCEPT ![p] = row]
  /\ currentBalance' = [currentBalance EXCEPT ![p] = balance]
  /\ nextTrxId' = nextTrxId + 1
  /\ Goto(p, next)
  /\ UNCHANGED <<store, auditLog, nextTabId, calls, op, unitPrice, tab, created,
                 upd, result>>

\* tx.debtTab.update({ where: { id: tab.id }, data }) as a step of the open
\* transaction: waits for the row, then writes `data' over its newest version.
UpdateTab(p, row) ==
  /\ ~RowLocked(p, tab[p].id)
  /\ upd' = [upd EXCEPT ![p] = row]
  /\ Goto(p, "commit")
  /\ UNCHANGED <<store, auditLog, ids, calls, op, unitPrice, tab, created, trx,
                 currentBalance, result>>

\* ------------------------------------------------------------ getUnitPrice
\* The price getUnitPrice resolves, lines 46-55 (0 when it throws the 500).
ResolvePrice(c, setting) ==
  IF customer[c].customUnitPrice # NULL /\ customer[c].customUnitPrice # 0
       /\ customer[c].customUnitPrice > 0
  THEN customer[c].customUnitPrice
  ELSE LET val == IF setting # NoSetting /\ setting # <<>>
                  THEN parseFloat(setting)
                  ELSE [finite |-> FALSE, num |-> 0]
       IN IF ~val.finite \/ val.num <= 0 THEN 0 ELSE val.num

\* getUnitPrice that reads the price before it checks the customer is active.
getUnitPrice_PriceFirst(c, setting) ==
  IF c \notin DOMAIN customer THEN Err(404, "Customer not found")
  ELSE IF ResolvePrice(c, setting) = 0
  THEN Err(500, "Unit price setting is missing or invalid")
  ELSE IF ~customer[c].active
  THEN Err(400, "Cannot record debt for inactive customer")
  ELSE NoResult

\* getUnitPrice(customerId), lines 41-56: the error it throws, or NoResult.
getUnitPrice(c, setting) ==
  IF c \notin DOMAIN customer THEN Err(404, "Customer not found")
  ELSE IF ~customer[c].active
  THEN Err(400, "Cannot record debt for inactive customer")
  ELSE IF ResolvePrice(c, setting) = 0
  THEN Err(500, "Unit price setting is missing or invalid")
  ELSE NoResult

\* ------------------------------------------------------------ createCharge
\* createCharge(input, userId), lines 81-87: validation, price and amount.
\* Neither read is of a ledger row.
\* `setting' is the Setting row the call finds when it reads it.
createChargeCall(p, c, n, d, setting) ==
  /\ Free(p)
  /\ calls' = calls + 1
  /\ IF n = 0 \/ n <= 0
     THEN Return(p, Err(400, "Containers must be greater than 0"))
     ELSE IF getUnitPrice(c, setting) # NoResult
     THEN Return(p, getUnitPrice(c, setting))
     ELSE /\ op' = [op EXCEPT ![p] = [NoOp EXCEPT !.kind = "CHARGE",
                      !.customerId = c, !.containers = n, !.transactionDate = d,
                      !.amount = n * ResolvePrice(c, setting)]]
          /\ unitPrice' = [unitPrice EXCEPT ![p] = ResolvePrice(c, setting)]
          /\ Goto(p, "findOrCreateOpenTab")
          /\ UNCHANGED <<tab, created, trx, upd, currentBalance, result>>
  /\ UNCHANGED <<store, auditLog, ids, outside>>

\* A charge request of any of the concurrent callers.
createCharge(p) ==
  /\ Free(p)
  /\ \E c \in CustomerIds, n \in ContainersIn, d \in TransactionDateIn,
        setting \in SettingValues :
       createChargeCall(p, c, n, d, setting)

\* findOrCreateOpenTab, lines 59-67: findFirst, then create when none.
findOrCreateOpenTab(p) ==
  /\ pc[p] = "findOrCreateOpenTab"
  /\ UNCHANGED outside
  /\ IF OpenTabs(op[p].customerId) # {}
     THEN /\ \E t \in OpenTabs(op[p].customerId) : tab' = [tab EXCEPT ![p] = t]
          /\ Goto(p, "createCharge_trx")
          /\ UNCHANGED <<created, nextTabId>>
     ELSE LET row == [id |-> nextTabId, customerId |-> op[p].customerId,
                      status |-> "OPEN", totalBalance |-> 0, closedAt |-> NULL]
          IN /\ created' = [created EXCEPT ![p] = row]
             /\ tab' = [tab EXCEPT ![p] = row]
             /\ nextTabId' = nextTabId + 1
             /\ Goto(p, "findOrCreateOpenTab_audit")
  /\ UNCHANGED <<store, auditLog, nextTrxId, calls, op, unitPrice, trx,
                 upd, currentBalance, result>>

\* findOrCreateOpenTab, lines 68-76: the audit row of the new tab, written
\* through the global client while the transaction is still open.  When the
\* write fails the exception leaves the callback and the transaction rolls
\* back.
findOrCreateOpenTab_audit(p) ==
  /\ pc[p] = "findOrCreateOpenTab_audit"
  /\ UNCHANGED outside
  /\ \/ /\ auditLog' = auditLog \cup {AuditRow("CREATE", "DebtTab", tab[p].id, "system")}
        /\ Goto(p, "createCharge_trx")
        /\ UNCHANGED <<op, locals, result>>
     \/ /\ Return(p, Err(500, "audit write failed"))
        /\ UNCHANGED auditLog
  /\ UNCHANGED <<store, ids, calls>>

\* createCharge, line 91.
ChargeNewBalance(balance, amount) == balance + amount

\* createCharge, lines 91-105.
createCharge_trx(p) ==
  /\ pc[p] = "createCharge_trx"
  /\ UNCHANGED outside
  /\ LET newBalance == ChargeNewBalance(tab[p].totalBalance, op[p].amount) IN
       InsertTrx(p, NewTrx(p, "CHARGE", op[p].containers, unitPrice[p],
                           op[p].amount, newBalance, NoReason),
                 newBalance, "createCharge_update")

\* createCharge, lines 107-110: data: { totalBalance: newBalance }.
ChargeTabData(row, newBalance) == [row EXCEPT !.totalBalance = newBalance]

createCharge_update(p) ==
  /\ pc[p] = "createCharge_update"
  /\ UNCHANGED outside
  /\ UpdateTab(p, ChargeTabData(CurrentRow(p, tab[p].id), currentBalance[p]))

\* ----------------------------------------------------------- createPayment
\* createPayment(input, userId), lines 138-141.
createPaymentCall(p, c, a, d) ==
  /\ Free(p)
  /\ calls' = calls + 1
  /\ IF a = 0 \/ a <= 0
     THEN Return(p, Err(400, "Payment amount must be greater than 0"))
     ELSE /\ op' = [op EXCEPT ![p] = [NoOp EXCEPT !.kind = "PAYMENT",
                      !.customerId = c, !.amount = a, !.transactionDate = d]]
          /\ Goto(p, "createPayment_find")
          /\ UNCHANGED <<locals, result>>
  /\ UNCHANGED <<store, auditLog, ids, outside>>

\* A payment request of any of the concurrent callers.
createPayment(p) ==
  /\ Free(p)
  /\ \E c \in LedgerCustomerIds, a \in PaymentIn, d \in TransactionDateIn :
       createPaymentCall(p, c, a, d)

\* Overpayment with no tolerance at the boundary.
Overpayment_AtEpsilon(amount, totalBalance) == amount - totalBalance >= EPSILON

\* createPayment, line 147.
Overpayment(amount, totalBalance) == amount - totalBalance > EPSILON

\* createPayment, lines 144-149: the open tab, or the error thrown.
createPayment_find(p) ==
  /\ pc[p] = "createPayment_find"
  /\ UNCHANGED outside
  /\ IF OpenTabs(op[p].customerId) = {}
     THEN Return(p, Err(404, "No open debt tab for customer"))
     ELSE \E t \in OpenTabs(op[p].customerId) :
            IF Overpayment(op[p].amount, t.totalBalance)
            THEN Return(p, Err(400, "Overpayment not allowed"))
            ELSE /\ tab' = [tab EXCEPT ![p] = t]
                 /\ Goto(p, "createPayment_trx")
                 /\ UNCHANGED <<op, unitPrice, created, trx, upd, currentBalance, result>>
  /\ UNCHANGED <<store, auditLog, ids, calls>>

\* PaymentNewBalance without the clamp at 0.
PaymentNewBalance_NoClamp(totalBalance, amount) == totalBalance - amount

\* createPayment, line 151 (and markPaid, line 272).
PaymentNewBalance(totalBalance, amount) == Max(0, totalBalance - amount)

\* createPayment, lines 151-163.
createPayment_trx(p) ==
  /\ pc[p] = "createPayment_trx"
  /\ UNCHANGED outside
  /\ LET newBalance == PaymentNewBalance(tab[p].totalBalance, op[p].amount) IN
       InsertTrx(p, NewTrx(p, "PAYMENT", NULL, NULL, op[p].amount, newBalance, NoReason),
                 newBalance, "createPayment_update")

\* createPayment, lines 166-171: the columns the update writes.
PaymentTabData(row, newBalance, date) ==
  IF Abs(newBalance) < EPSILON
  THEN [row EXCEPT !.status = "CLOSED", !.closedAt = date, !.totalBalance = 0]
  ELSE [row EXCEPT !.totalBalance = newBalance]

\* createPayment, line 173.
createPayment_update(p) ==
  /\ pc[p] = "createPayment_update"
  /\ UNCHANGED outside
  /\ UpdateTab(p, PaymentTabData(CurrentRow(p, tab[p].id), currentBalance[p],
                                 op[p].transactionDate))

\* -------------------------------------------------------- createAdjustment
\* createAdjustment, lines 200-205: the validation error, or NoResult.
AdjustmentInvalid_NoTrim(amount, reason) ==
  IF reason = <<>>
  THEN Err(400, "Adjustment reason is required")
  ELSE IF amount = 0 \/ Abs(amount) < EPSILON
  THEN Err(400, "Adjustment amount cannot be zero")
  ELSE NoResult

AdjustmentInvalid(amount, reason) ==
  IF reason = <<>> \/ trim(reason) = <<>>
  THEN Err(400, "Adjustment reason is required")
  ELSE IF amount = 0 \/ Abs(amount) < EPSILON
  THEN Err(400, "Adjustment amount cannot be zero")
  ELSE NoResult

\* createAdjustment(input, userId), lines 199-205.
createAdjustmentCall(p, c, a, r, d) ==
  /\ Free(p)
  /\ calls' = calls + 1
  /\ IF AdjustmentInvalid(a, r) # NoResult
     THEN Return(p, AdjustmentInvalid(a, r))
     ELSE /\ op' = [op EXCEPT ![p] = [NoOp EXCEPT !.kind = "ADJUSTMENT",
                      !.customerId = c, !.amount = a, !.reason = r,
                      !.transactionDate = d]]
          /\ Goto(p, "createAdjustment_find")
          /\ UNCHANGED <<locals, result>>
  /\ UNCHANGED <<store, auditLog, ids, outside>>

\* An adjustment request of any of the concurrent callers.
createAdjustment(p) ==
  /\ Free(p)
  /\ \E c \in LedgerCustomerIds, a \in AdjustmentIn, r \in ReasonIn, d \in TransactionDateIn :
       createAdjustmentCall(p, c, a, r, d)

\* createAdjustment, lines 211-212.
AdjustmentNegative(totalBalance, amount) == totalBalance + amount < 0 - EPSILON

\* createAdjustment, lines 208-214.
createAdjustment_find(p) ==
  /\ pc[p] = "createAdjustment_find"
  /\ UNCHANGED outside
  /\ IF OpenTabs(op[p].customerId) = {}
     THEN Return(p, Err(404, "No open debt tab for customer"))
     ELSE \E t \in OpenTabs(op[p].customerId) :
            IF AdjustmentNegative(t.totalBalance, op[p].amount)
            THEN Return(p, Err(400, "Adjustment would result in negative balance"))
            ELSE /\ tab' = [tab EXCEPT ![p] = t]
                 /\ Goto(p, "createAdjustment_trx")
                 /\ UNCHANGED <<op, unitPrice, created, trx, upd, currentBalance, result>>
  /\ UNCHANGED <<store, auditLog, ids, calls>>

\* createAdjustment, lines 221 and 231.
AdjustmentNewBalance(totalBalance, amount) == Max(0, totalBalance + amount)

\* createAdjustment, lines 216-227.
createAdjustment_trx(p) ==
  /\ pc[p] = "createAdjustment_trx"
  /\ UNCHANGED outside
  /\ LET newBalance == AdjustmentNewBalance(tab[p].totalBalance, op[p].amount) IN
       InsertTrx(p, NewTrx(p, "ADJUSTMENT", NULL, NULL, op[p].amount, newBalance,
                           op[p].reason),
                 newBalance, "createAdjustment_update")

\* createAdjustment, lines 229-232: data: { totalBalance }.
AdjustmentTabData(row, newBalance) == [row EXCEPT !.totalBalance = newBalance]

createAdjustment_update(p) ==
  /\ pc[p] = "createAdjustment_update"
  /\ UNCHANGED outside
  /\ UpdateTab(p, AdjustmentTabData(CurrentRow(p, tab[p].id), currentBalance[p]))

\* ---------------------------------------------------------------- markPaid
\* markPaid(customerId, transactionDate, userId, finalPayment?), line 259.
markPaidCall(p, c, f, d) ==
  /\ Free(p)
  /\ calls' = calls + 1
  /\ op' = [op EXCEPT ![p] = [NoOp EXCEPT !.kind = "MARKPAID", !.customerId = c,
               !.finalPayment = f, !.transactionDate = d]]
  /\ Goto(p, "markPaid_find")
  /\ UNCHANGED <<store, auditLog, ids, locals, result, outside>>

\* A mark-paid request of any of the concurrent callers.
markPaid(p) ==
  /\ Free(p)
  /\ \E c \in LedgerCustomerIds, f \in FinalPaymentIn, d \in MarkPaidDateIn :
       markPaidCall(p, c, f, d)

\* markPaid, line 267: if (finalPayment && finalPayment > 0).
HasFinalPayment(f) == f # NULL /\ f # 0 /\ f > 0

\* markPaid, line 268.
FinalPaymentExceeds(finalPayment, balance) == finalPayment - balance > EPSILON

\* markPaid, lines 261-270.
markPaid_find(p) ==
  /\ pc[p] = "markPaid_find"
  /\ UNCHANGED outside
  /\ IF OpenTabs(op[p].customerId) = {}
     THEN Return(p, Err(404, "No open debt tab for customer"))
     ELSE \E t \in OpenTabs(op[p].customerId) :
            IF HasFinalPayment(op[p].finalPayment)
                 /\ FinalPaymentExceeds(op[p].finalPayment, t.totalBalance)
            THEN Return(p, Err(400, "Final payment exceeds remaining balance"))
            ELSE /\ tab' = [tab EXCEPT ![p] = t]
                 /\ currentBalance' = [currentBalance EXCEPT ![p] = t.totalBalance]
                 /\ Goto(p, IF HasFinalPayment(op[p].finalPayment)
                            THEN "markPaid_trx" ELSE "markPaid_update")
                 /\ UNCHANGED <<op, unitPrice, created, trx, upd, result>>
  /\ UNCHANGED <<store, auditLog, ids, calls>>

\* markPaid, lines 272-283.
markPaid_trx(p) ==
  /\ pc[p] = "markPaid_trx"
  /\ UNCHANGED outside
  /\ LET newBalance == PaymentNewBalance(currentBalance[p], op[p].finalPayment) IN
       InsertTrx(p, NewTrx(p, "PAYMENT", NULL, NULL, op[p].finalPayment, newBalance,
                           NoReason),
                 newBalance, "markPaid_update")

\* CannotClose with no tolerance at the boundary.
CannotClose_AtEpsilon(balance) == balance >= EPSILON

\* markPaid, line 286.
CannotClose(balance) == balance > EPSILON

\* markPaid, line 292: the columns the update writes.
MarkPaidTabData(row, date) ==
  [row EXCEPT !.status = "CLOSED", !.closedAt = date, !.totalBalance = 0]

\* markPaid_update when the final payment was created through the global
\* client instead of tx: the rejection cannot take the row back.
markPaid_update_NoRollback(p) ==
  /\ pc[p] = "markPaid_update"
  /\ UNCHANGED outside
  /\ IF CannotClose(currentBalance[p])
     THEN /\ Return(p, Err(400, "Cannot close tab with non-zero balance"))
          /\ trxs' = IF trx[p] = NoTrx THEN trxs ELSE Append(trxs, trx[p])
          /\ UNCHANGED <<tabs, auditLog, ids, calls>>
     ELSE UpdateTab(p, MarkPaidTabData(CurrentRow(p, tab[p].id), op[p].transactionDate))

\* markPaid, lines 286-293.
markPaid_update(p) ==
  /\ pc[p] = "markPaid_update"
  /\ UNCHANGED outside
  /\ IF CannotClose(currentBalance[p])
     THEN /\ Return(p, Err(400, "Cannot close tab with non-zero balance"))
          /\ UNCHANGED <<store, auditLog, ids, calls>>
     ELSE UpdateTab(p, MarkPaidTabData(CurrentRow(p, tab[p].id), op[p].transactionDate))

\* ------------------------------------------------------- commit and audit
\* commit when the snapshots of the tab's earlier transactions are brought up
\* to the balance written.
commit_Recomputed(p) ==
  /\ pc[p] = "commit"
  /\ UNCHANGED outside
  /\ tabs' = (upd[p].id :> upd[p]) @@ tabs
  /\ LET recomputed == [k \in DOMAIN trxs |->
                          IF trxs[k].debtTabId = upd[p].id
                          THEN [trxs[k] EXCEPT !.balanceAfter = upd[p].totalBalance]
                          ELSE trxs[k]]
     IN trxs' = IF trx[p] = NoTrx THEN recomputed ELSE Append(recomputed, trx[p])
  /\ Goto(p, "audit")
  /\ UNCHANGED <<auditLog, ids, calls, op, locals, result>>

\* The $transaction callback returned: the pending rows become visible.
commit(p) ==
  /\ pc[p] = "commit"
  /\ UNCHANGED outside
  /\ tabs' = (upd[p].id :> upd[p]) @@ tabs
  /\ trxs' = IF trx[p] = NoTrx THEN trxs ELSE Append(trxs, trx[p])
  /\ Goto(p, "audit")
  /\ UNCHANGED <<auditLog, ids, calls, op, locals, result>>

\* audit when every operation records the tab it wrote.
audit_KeyedByTab(p) ==
  /\ pc[p] = "audit"
  /\ UNCHANGED outside
  /\ \/ /\ auditLog' = auditLog \cup {AuditRow("UPDATE", "DebtTab", upd[p].id, UserId)}
        /\ Return(p, [status |-> 200, message |-> op[p].kind,
                      transactionId |-> trx[p].id, tabId |-> upd[p].id])
     \/ /\ Return(p, Err(500, "audit write failed"))
        /\ UNCHANGED auditLog
  /\ UNCHANGED <<store, ids, calls>>

\* The audit row written after the transaction, lines 115-135, 178-196,
\* 237-256 and 298-309, and the return of { transaction, tab }.
audit(p) ==
  /\ pc[p] = "audit"
  /\ UNCHANGED outside
  /\ \/ /\ auditLog' = auditLog \cup {
              IF op[p].kind = "MARKPAID"
              THEN AuditRow("UPDATE", "DebtTab", upd[p].id, UserId)
              ELSE AuditRow("CREATE", "DebtTransaction", trx[p].id, UserId)}
        /\ Return(p, [status |-> 200, message |-> op[p].kind,
                      transactionId |-> trx[p].id, tabId |-> upd[p].id])
     \/ /\ Return(p, Err(500, "audit write failed"))
        /\ UNCHANGED auditLog
  /\ UNCHANGED <<store, ids, calls>>

Next ==
  \E p \in Procs :
    \/ createCharge(p)
    \/ findOrCreateOpenTab(p)
    \/ findOrCreateOpenTab_audit(p)
    \/ createCharge_trx(p)
    \/ createCharge_update(p)
    \/ createPayment(p)
    \/ createPayment_find(p)
    \/ createPayment_trx(p)
    \/ createPayment_update(p)
    \/ createAdjustment(p)
    \/ createAdjustment_find(p)
    \/ createAdjustment_trx(p)
    \/ createAdjustment_update(p)
    \/ markPaid(p)
    \/ markPaid_find(p)
    \/ markPaid_trx(p)
    \/ markPaid_update(p)
    \/ commit(p)
    \/ audit(p)

Spec == Init /\ [][Next]_vars

\* ------------------------------------------------------------- progress
\* The steps of a call under way: each is a statement awaited by the request's
\* handler, which the event loop and the database run whenever it can run.
Continue(p) ==
  \/ findOrCreateOpenTab(p)
  \/ findOrCreateOpenTab_audit(p)
  \/ createCharge_trx(p)
  \/ createCharge_update(p)
  \/ createPayment_find(p)
  \/ createPayment_trx(p)
  \/ createPayment_update(p)
  \/ createAdjustment_find(p)
  \/ createAdjustment_trx(p)
  \/ createAdjustment_update(p)
  \/ markPaid_find(p)
  \/ markPaid_trx(p)
  \/ markPaid_update(p)
  \/ commit(p)
  \/ audit(p)

\* Requests that get past the validation of lines 82-87, 139-141 and 200-205
\* (a rejected request returns in the step that takes it and has no step left
\* to wait for), all on the ledger of customer c1, where they contend for the
\* same tab.
LivePaymentIn == {7, 15}
LiveAdjustmentIn == {7, 0 - 10}
LiveFinalPaymentIn == {NULL, 10}

LiveRequest(p) ==
  /\ Free(p)
  /\ \/ createChargeCall(p, "c1", 1, 1, <<"1", "0">>)
     \/ \E a \in LivePaymentIn : createPaymentCall(p, "c1", a, 1)
     \/ \E a \in LiveAdjustmentIn : createAdjustmentCall(p, "c1", a, <<"o", "k">>, 1)
     \/ \E f \in LiveFinalPaymentIn : markPaidCall(p, "c1", f, 2)

LiveNext == \E p \in Procs : LiveRequest(p) \/ Continue(p)

LiveSpec == Init /\ [][LiveNext]_vars /\ \A p \in Procs : WF_vars(Continue(p))

\* ------------------------------------------------- a rejected statement
\* tx.debtTransaction.create of a charge rejected by the database: enteredById
\* references a user row that is gone (P2003, answered with 400), or the
\* statement fails otherwise.  The exception leaves the callback and the
\* transaction rolls back, the tab it created included.
createCharge_trx_rejected(p) ==
  /\ pc[p] = "createCharge_trx"
  /\ UNCHANGED outside
  /\ Return(p, Err(400, "Invalid reference to related resource"))
  /\ UNCHANGED <<store, auditLog, ids, calls>>

RollbackNext ==
  \/ Next
  \/ \E p \in Procs : createCharge_trx_rejected(p)

RollbackSpec == Init /\ [][RollbackNext]_vars

\* --------------------------------------------- one caller's charge request
\* Values of the Setting row beyond those the concurrent callers meet: any
\* string can be stored (settings.service.ts, parseValue).
ChargeSettingIn == SettingValues \cup {<<"1", "a">>, <<"-", "5">>}

ChargeRequests ==
  [customerId : CustomerIds, containers : ContainersIn \cup {0 - 1},
   transactionDate : TransactionDateIn, setting : ChargeSettingIn]

\* createCharge called with the caller's request.
createChargeRequest(p) ==
  createChargeCall(p, request.customerId, request.containers,
                   request.transactionDate, request.setting)

ChargeInit ==
  /\ InitLedger(InitStores)
  /\ request \in ChargeRequests
  /\ history = NoHistory
  /\ InitSales({<<>>})
  /\ InitUsers({{}})

ChargeNext ==
  \E p \in Procs :
    \/ createChargeRequest(p)
    \/ findOrCreateOpenTab(p)
    \/ findOrCreateOpenTab_audit(p)
    \/ createCharge_trx(p)
    \/ createCharge_update(p)
    \/ commit(p)
    \/ audit(p)

ChargeSpec == ChargeInit /\ [][ChargeNext]_vars

\* ----------------------------------------- one caller's adjustment request
\* Amounts around zero and around EPSILON, of both signs, and reasons that are
\* empty, blank or given.
AdjustmentAmountIn == AdjustmentIn \cup {0 - 7, 0 - 5, 0 - 3, 0 - 1, 1, 5}
AdjustmentReasonIn == ReasonIn \cup {<<" ", " ">>, <<" ", "x">>, <<"x">>}

AdjustmentRequests ==
  [customerId : LedgerCustomerIds, amount : AdjustmentAmountIn,
   reason : AdjustmentReasonIn, transactionDate : TransactionDateIn]

\* createAdjustment called with the caller's request.
createAdjustmentRequest(p) ==
  createAdjustmentCall(p, request.customerId, request.amount, request.reason,
                       request.transactionDate)

AdjustmentInit ==
  /\ InitLedger(InitStores)
  /\ request \in AdjustmentRequests
  /\ history = NoHistory
  /\ InitSales({<<>>})
  /\ InitUsers({{}})

AdjustmentNext ==
  \E p \in Procs :
    \/ createAdjustmentRequest(p)
    \/ createAdjustment_find(p)
    \/ createAdjustment_trx(p)
    \/ createAdjustment_update(p)
    \/ commit(p)
    \/ audit(p)

AdjustmentSpec == AdjustmentInit /\ [][AdjustmentNext]_vars

\* --------------------------------------------------- the customer's history
\* The results a findMany with orderBy: { key: 'desc' } can give on the rows
\* S: every arrangement of the rows in which the key never increases; rows
\* with equal keys come in whatever order the database produces them.
RECURSIVE FindManyDesc(_, _)
FindManyDesc(S, key) ==
  IF S = {} THEN {<<>>}
  ELSE LET top == {r \in S : \A q \in S : key[q] <= key[r]}
       IN UNION {{<<r>> \o rest : rest \in FindManyDesc(S \ {r}, key)} : r \in top}

\* getCustomerDebtHistory, lines 331-334: the customer's tabs, newest first
\* (ids are handed out in the order the tabs are opened).
getCustomerDebtHistory(c) ==
  /\ history = NoHistory
  /\ LET rows == {tabs[i] : i \in {i \in DOMAIN tabs : tabs[i].customerId = c}}
     IN \E found \in FindManyDesc(rows, [r \in rows |-> r.id]) :
          history' = [customerId |-> c, tabs |-> found, transactions |-> <<>>,
                      done |-> FALSE]
  /\ UNCHANGED <<store, auditLog, ids, calls, pc, op, locals, result, request,
                 salesVars, usersVars>>

\* getCustomerDebtHistory, lines 336-344: the transactions of these tabs,
\* orderBy: { transactionDate: 'desc' }, and the return.
getCustomerDebtHistory_transactions ==
  /\ history # NoHistory /\ ~history.done
  /\ LET tabIds == {history.tabs[i].id : i \in DOMAIN history.tabs}
         rows == {trxs[k] : k \in {k \in DOMAIN trxs : trxs[k].debtTabId \in tabIds}}
     IN \E found \in FindManyDesc(rows, [r \in rows |-> r.transactionDate]) :
          history' = [history EXCEPT !.transactions = found, !.done = TRUE]
  /\ UNCHANGED <<store, auditLog, ids, calls, pc, op, locals, result, request,
                 salesVars, usersVars>>

HistoryNext ==
  \/ Next
  \/ \E c \in LedgerCustomerIds : getCustomerDebtHistory(c)
  \/ getCustomerDebtHistory_transactions

HistorySpec == Init /\ [][HistoryNext]_vars

\* ------------------------------------------------------ the sales service
\* What the sales and users services leave alone: the ledger's tables and the
\* frames of its calls.
ledger == <<store, ids, op, locals>>

\* The last instant findByCustomerAndDate's range names: T23:59:59.999Z, in
\* milliseconds since midnight.
EndOfDay == 86399999

SaleDayIn == {1, 2}
SaleTimeIn == {0, 43200000, EndOfDay}
SaleDateIn == [day : SaleDayIn, time : SaleTimeIn]
QuantityIn == {1, 2}
SaleUnitPriceIn == {25}
PaymentTypeIn == {"CASH", "CREDIT"}

\* The rows of the Sale table as a set.
SaleRows == {sales[i] : i \in DOMAIN sales}

\* The value createSale returns: the sale row and wasUpdated.
SaleResult(code, row, wasUpdated) ==
  [status |-> code, message |-> "", sale |-> row, wasUpdated |-> wasUpdated]

\* createSale returns or throws: its frame is gone. No statement of it runs
\* in a transaction, so what it wrote before stays written.
SaleReturn(p, res) ==
  /\ pc' = [pc EXCEPT ![p] = "idle"]
  /\ saleData' = [saleData EXCEPT ![p] = NoSaleData]
  /\ existingSale' = [existingSale EXCEPT ![p] = NoSale]
  /\ sale' = [sale EXCEPT ![p] = NoSale]
  /\ result' = res

\* createSale, lines 44-70: the customer lookup, the total, and the credit
\* limit check for a credit sale; allowed is what validateCreditLimit answers.
createSale(p) ==
  /\ Free(p)
  /\ \E c \in CustomerIds, d \in SaleDateIn, n \in QuantityIn, u \in SaleUnitPriceIn,
        t \in PaymentTypeIn, adminOverride \in BOOLEAN, allowed \in BOOLEAN :
       /\ calls' = calls + 1
       /\ IF c \notin DOMAIN customer
          THEN /\ SaleReturn(p, Err(404, "Customer not found"))
               /\ UNCHANGED <<sales, nextSaleId>>
          ELSE IF ~customer[c].active
          THEN /\ SaleReturn(p, Err(400, "Cannot create sale for inactive customer"))
               /\ UNCHANGED <<sales, nextSaleId>>
          ELSE IF t = "CREDIT" /\ ~allowed /\ ~adminOverride
          THEN /\ SaleReturn(p, Err(400, "Credit limit exceeded"))
               /\ UNCHANGED <<sales, nextSaleId>>
          ELSE /\ saleData' = [saleData EXCEPT ![p] =
                     [customerId |-> c, date |-> d, quantity |-> n, unitPrice |-> u,
                      paymentType |-> t, adminOverride |-> adminOverride]]
               /\ Goto(p, "createSale_find")
               /\ UNCHANGED <<sales, nextSaleId, existingSale, sale, result>>
  /\ UNCHANGED <<ledger, auditLog, callers, usersVars>>

\* The rows findByCustomerAndDate's where clause matches: the customer's
\* sales with date >= T00:00:00.000Z and date < T23:59:59.999Z of the day of
\* dateISO.
SalesOfDay(customerId, date) ==
  {s \in SaleRows : /\ s.customerId = customerId
                    /\ s.date.day = date.day
                    /\ s.date.time >= 0
                    /\ s.date.time < EndOfDay}

\* findByCustomerAndDate: findFirst without orderBy returns any matching row,
\* or null.
createSale_find(p) ==
  /\ pc[p] = "createSale_find"
  /\ LET found == SalesOfDay(saleData[p].customerId, saleData[p].date)
     IN IF found = {}
        THEN /\ Goto(p, "createSale_create")
             /\ UNCHANGED existingSale
        ELSE /\ \E s \in found : existingSale' = [existingSale EXCEPT ![p] = s]
             /\ Goto(p, "createSale_update")
  /\ UNCHANGED <<sales, nextSaleId, saleData, sale, result, calls>>
  /\ UNCHANGED <<ledger, auditLog, callers, usersVars>>

\* salesRepository.update(existingSale.id, {quantity, unitPrice, notes,
\* paymentType}, total): UPDATE by id.
createSale_update(p) ==
  /\ pc[p] = "createSale_update"
  /\ LET updatedSale == [existingSale[p] EXCEPT
                           !.quantity = saleData[p].quantity,
                           !.unitPrice = saleData[p].unitPrice,
                           !.paymentType = saleData[p].paymentType,
                           !.total = saleData[p].quantity * saleData[p].unitPrice]
         stored(r) == [r EXCEPT !.quantity = updatedSale.quantity,
                                !.unitPrice = updatedSale.unitPrice,
                                !.paymentType = updatedSale.paymentType,
                                !.total = updatedSale.total]
     IN /\ sales' = [i \in DOMAIN sales |->
                       IF sales[i].id = existingSale[p].id THEN stored(sales[i])
                       ELSE sales[i]]
        /\ sale' = [sale EXCEPT ![p] = updatedSale]
  /\ Goto(p, "createSale_audit")
  /\ UNCHANGED <<nextSaleId, saleData, existingSale, result, calls>>
  /\ UNCHANGED <<ledger, auditLog, callers, usersVars>>

\* The unique index Sale_customerId_date_key on ("customerId", "date"): a row
\* with the same customer and the same instant exists.
SaleKeyTaken(customerId, date) ==
  \E s \in SaleRows : s.customerId = customerId /\ s.date = date

\* salesRepository.create(data, userId, total): INSERT; a violation of the
\* unique index is Prisma's P2002, which the error handler answers with 409.
createSale_create(p) ==
  /\ pc[p] = "createSale_create"
  /\ IF SaleKeyTaken(saleData[p].customerId, saleData[p].date)
     THEN /\ SaleReturn(p, Err(409, "customerId already exists"))
          /\ UNCHANGED <<sales, nextSaleId>>
     ELSE /\ sales' = Append(sales,
                 [id |-> nextSaleId, customerId |-> saleData[p].customerId,
                  date |-> saleData[p].date, quantity |-> saleData[p].quantity,
                  unitPrice |-> saleData[p].unitPrice,
                  total |-> saleData[p].quantity * saleData[p].unitPrice,
                  paymentType |-> saleData[p].paymentType])
          /\ nextSaleId' = nextSaleId + 1
          /\ sale' = [sale EXCEPT ![p] = sales'[Len(sales')]]
          /\ Goto(p, "createSale_audit")
          /\ UNCHANGED <<saleData, existingSale, result>>
  /\ UNCHANGED calls
  /\ UNCHANGED <<ledger, auditLog, callers, usersVars>>

\* The audit row (UPDATE or CREATE of the Sale) and the return with
\* wasUpdated, lines 139-174 and 189-217.
createSale_audit(p) ==
  /\ pc[p] = "createSale_audit"
  /\ LET wasUpdated == existingSale[p] # NoSale
     IN /\ auditLog' = auditLog \cup
             {AuditRow(IF wasUpdated THEN "UPDATE" ELSE "CREATE", "Sale",
                       sale[p].id, UserId)}
        /\ SaleReturn(p, SaleResult(201, sale[p], wasUpdated))
  /\ UNCHANGED <<sales, nextSaleId, calls>>
  /\ UNCHANGED <<ledger, callers, usersVars>>

\* The Sale table before the calls: empty, or holding one sale of c1 made at
\* midday of day 1.
InitSaleTables ==
  {<<>>,
   <<[id |-> 1, customerId |-> "c1", date |-> [day |-> 1, time |-> 43200000],
      quantity |-> 1, unitPrice |-> 25, total |-> 25, paymentType |-> "CASH"]>>}

\* The ledger with no tab yet.
EmptyStores == {s \in InitStores : s.tabs = <<>>}

SalesInit ==
  /\ InitLedger(EmptyStores)
  /\ request = NoRequest
  /\ history = NoHistory
  /\ InitSales(InitSaleTables)
  /\ InitUsers({{}})

SalesNext ==
  \E p \in Procs :
    \/ createSale(p)
    \/ createSale_find(p)
    \/ createSale_update(p)
    \/ createSale_create(p)
    \/ createSale_audit(p)

SalesSpec == SalesInit /\ [][SalesNext]_vars

\* ------------------------------------------------------ the users service
\* private readonly MAX_USERS = 3
MAX_USERS == 3

UsernameIn == {"ana", "ben", "cy", "dee"}
RoleIn == {"ADMIN", "STAFF"}

UserRow(id, username, role) ==
  [id |-> id, username |-> username, role |-> role, active |-> TRUE]

\* createUser returns or throws: its frame is gone. No statement of it runs in
\* a transaction.
UserReturn(p, res) ==
  /\ pc' = [pc EXCEPT ![p] = "idle"]
  /\ userData' = [userData EXCEPT ![p] = NoUserData]
  /\ result' = res

\* usersRepository.isMaxUsersReached: prisma.user.count() >= MAX_USERS.
isMaxUsersReached == Cardinality(users) >= MAX_USERS

\* createUser, lines 26-32: the call and its check of the number of users.
createUser(p) ==
  /\ Free(p)
  /\ \E username \in UsernameIn, role \in RoleIn :
       /\ calls' = calls + 1
       /\ IF isMaxUsersReached
          THEN UserReturn(p, Err(400, "Maximum number of users (3) has been reached"))
          ELSE /\ userData' = [userData EXCEPT ![p] =
                                 [username |-> username, role |-> role]]
               /\ Goto(p, "createUser_findByUsername")
               /\ UNCHANGED result
  /\ UNCHANGED <<users, ledger, auditLog, callers, salesVars>>

\* usersRepository.findByUsername: findUnique where { username }.
findByUsername(username) == {u \in users : u.username = username}

\* Lines 34-41: the username check (and the password hash, which touches no
\* state).
createUser_findByUsername(p) ==
  /\ pc[p] = "createUser_findByUsername"
  /\ IF findByUsername(userData[p].username) # {}
     THEN UserReturn(p, Err(409, "Username already exists"))
     ELSE /\ Goto(p, "createUser_create")
          /\ UNCHANGED <<userData, result>>
  /\ UNCHANGED <<users, calls, ledger, auditLog, callers, salesVars>>

\* usersRepository.create: INSERT; username is unique, a duplicate is Prisma's
\* P2002, which the error handler answers with 409.
createUser_create(p) ==
  /\ pc[p] = "createUser_create"
  /\ IF findByUsername(userData[p].username) # {}
     THEN /\ UserReturn(p, Err(409, "username already exists"))
          /\ UNCHANGED users
     ELSE /\ users' = users \cup {UserRow(Cardinality(users) + 1,
                                          userData[p].username, userData[p].role)}
          /\ Goto(p, "createUser_audit")
          /\ UNCHANGED <<userData, result>>
  /\ UNCHANGED <<calls, ledger, auditLog, callers, salesVars>>

\* Lines 49-66: the audit row and the return of the user.
createUser_audit(p) ==
  /\ pc[p] = "createUser_audit"
  /\ LET user == CHOOSE u \in users : u.username = userData[p].username
     IN /\ auditLog' = auditLog \cup {AuditRow("CREATE", "User", user.id, UserId)}
        /\ UserReturn(p, [status |-> 201, message |-> "", user |-> user])
  /\ UNCHANGED <<users, calls, ledger, callers, salesVars>>

\* The User table before the calls: the first n of three users, n = 0..3.
InitUserTables ==
  LET seed == <<UserRow(1, "ana", "ADMIN"), UserRow(2, "ben", "STAFF"),
                UserRow(3, "cy", "STAFF")>>
  IN {{seed[i] : i \in 1..n} : n \in 0..MAX_USERS}

UsersInit ==
  /\ InitLedger(EmptyStores)
  /\ request = NoRequest
  /\ history = NoHistory
  /\ InitSales({<<>>})
  /\ InitUsers(InitUserTables)

UsersNext ==
  \E p \in Procs :
    \/ createUser(p)
    \/ createUser_findByUsername(p)
    \/ createUser_create(p)
    \/ createUser_audit(p)

UsersSpec == UsersInit /\ [][UsersNext]_vars

\* ================================================================ claims
TabIds == DOMAIN tabs

\* The committed transactions of a tab, in commit order.
TrxOf(id) == SelectSeq(trxs, LAMBDA t : t.debtTabId = id)

\* The committed transaction of a tab that was appended last (ids are handed
\* out in the order the rows are created).
LastTrx(id) ==
  CHOOSE t \in {trxs[k] : k \in 1..Len(trxs)} :
    /\ t.debtTabId = id
    /\ \A k \in 1..Len(trxs) : trxs[k].debtTabId = id => trxs[k].id <= t.id

HasTrx(id) == \E k \in 1..Len(trxs) : trxs[k].debtTabId = id

HasOpenTab(c) == \E i \in TabIds : tabs[i].customerId = c /\ tabs[i].status = "OPEN"

HasClosedTab(c) == \E i \in TabIds : tabs[i].customerId = c /\ tabs[i].status = "CLOSED"

Quiet == \A p \in Procs : pc[p] = "idle"

\* Process p takes the step that leaves label l.
Leaves(p, l) == pc[p] = l /\ pc'[p] # l

\* C1: every customer has at most one tab with status OPEN, in every
\* reachable state and under every interleaving of the four operations.
C1_OneOpenTabPerCustomer ==
  \A c \in CustomerIds :
    \A i, j \in TabIds :
      (tabs[i].customerId = c /\ tabs[j].customerId = c
         /\ tabs[i].status = "OPEN" /\ tabs[j].status = "OPEN") => i = j

\* The effect of one transaction on the balance it is applied to.
Applied(balance, t) ==
  CASE t.transactionType = "CHARGE" -> balance + t.amount
    [] t.transactionType = "PAYMENT" -> Max(0, balance - t.amount)
    [] t.transactionType = "ADJUSTMENT" -> Max(0, balance + t.amount)

\* C2: operations on one tab are serialized, so no balance update is lost:
\* every committed transaction's balanceAfter is its own effect applied to the
\* balanceAfter of the transaction committed before it on the same tab (0 for
\* the first), as in the serial execution in commit order.
C2_NoLostUpdate ==
  \A id \in TabIds :
    \A k \in 1..Len(TrxOf(id)) :
      TrxOf(id)[k].balanceAfter =
        Applied(IF k = 1 THEN 0 ELSE TrxOf(id)[k - 1].balanceAfter, TrxOf(id)[k])

\* C3: every tab's totalBalance equals the balanceAfter of its most recently
\* appended transaction, or 0 when it has none.
C3_BalanceIsLastBalanceAfter ==
  \A id \in TabIds :
    tabs[id].totalBalance = IF HasTrx(id) THEN LastTrx(id).balanceAfter ELSE 0

\* C4: once a tab is CLOSED its row (status, totalBalance, closedAt) never
\* changes again.
C4_ClosedIsTerminal ==
  [][\A id \in TabIds : tabs[id].status = "CLOSED" => tabs'[id] = tabs[id]]_vars

\* C5: every tab's totalBalance and every transaction's balanceAfter is >= 0,
\* committed or still pending in an open transaction.
C5_NonNegative ==
  /\ \A id \in TabIds : tabs[id].totalBalance >= 0
  /\ \A k \in 1..Len(trxs) : trxs[k].balanceAfter >= 0
  /\ \A p \in Procs : trx[p].balanceAfter >= 0 /\ upd[p].totalBalance >= 0

\* C5 witness: a payment larger than the balance it was applied to (within
\* EPSILON) or an adjustment below zero (within EPSILON) was committed, its
\* balance clamped at 0.
C5_Witness ==
  \E id \in TabIds :
    \E k \in 2..Len(TrxOf(id)) :
      /\ TrxOf(id)[k].transactionType \in {"PAYMENT", "ADJUSTMENT"}
      /\ Abs(TrxOf(id)[k].amount) > TrxOf(id)[k - 1].balanceAfter
      /\ TrxOf(id)[k].balanceAfter = 0

\* Process p's call ends in an error thrown before or inside its transaction.
Rejects(p) == pc[p] \notin {"idle", "commit", "audit"} /\ pc'[p] = "idle"

Commits(p) == pc[p] = "commit" /\ pc'[p] = "audit"

TrxIds(s) == {s[k].id : k \in 1..Len(s)}

\* C6: an operation that is rejected or fails inside its transaction leaves
\* every tab and every transaction as it was and none of its pending rows is
\* ever persisted (markPaid's final payment included); a transaction row and
\* its tab update are only ever persisted together, in one commit.
C6_RollbackIsTotal ==
  [][/\ \A p \in Procs :
          Rejects(p) =>
            /\ tabs' = tabs /\ trxs' = trxs
            /\ trx[p].id \notin TrxIds(trxs')
            /\ created[p].id \notin DOMAIN tabs'
            /\ trx'[p] = NoTrx /\ created'[p] = NoTab /\ upd'[p] = NoTab
     /\ trxs' # trxs =>
          \E p \in Procs : /\ Commits(p)
                           /\ trxs' = Append(trxs, trx[p])
                           /\ tabs'[trx[p].debtTabId] = upd[p]
     /\ tabs' # tabs =>
          \E p \in Procs : /\ Commits(p)
                           /\ trx[p] # NoTrx \/ op[p].kind = "MARKPAID"
                           /\ trxs' = IF trx[p] = NoTrx THEN trxs ELSE Append(trxs, trx[p])
    ]_vars

\* C6 witness: markPaid was rejected for a remaining balance > EPSILON after
\* it had created its PAYMENT row, and that row is not in the ledger.
C6_Witness ==
  /\ Quiet
  /\ result = Err(400, "Cannot close tab with non-zero balance")
  /\ nextTrxId - 1 \notin TrxIds(trxs)
  /\ nextTrxId > 2

\* C7: createPayment is rejected as an overpayment exactly when amount minus
\* the balance of the open tab it read is > EPSILON; the rejection leaves the
\* store as it is and appends nothing.
C7_OverpaymentRejected ==
  [][\A p \in Procs :
       (Leaves(p, "createPayment_find") /\ HasOpenTab(op[p].customerId)) =>
         LET open == {tabs[i] : i \in {j \in TabIds :
                         tabs[j].customerId = op[p].customerId
                         /\ tabs[j].status = "OPEN"}}
             rejected == pc'[p] = "idle" /\ result' = Err(400, "Overpayment not allowed")
         IN /\ rejected \/ pc'[p] = "createPayment_trx"
            /\ rejected => /\ \E t \in open : op[p].amount - t.totalBalance > EPSILON
                           /\ tabs' = tabs /\ trxs' = trxs
                           /\ trx'[p] = NoTrx /\ upd'[p] = NoTab
            /\ ~rejected => /\ tab'[p] \in open
                            /\ op[p].amount - tab'[p].totalBalance <= EPSILON
    ]_vars

\* C7 witness: a payment was rejected as an overpayment and its tab is still
\* open with its balance.
C7_Witness ==
  /\ Quiet
  /\ result = Err(400, "Overpayment not allowed")
  /\ \E i \in TabIds : tabs[i].status = "OPEN" /\ tabs[i].totalBalance > 0

\* C8: an accepted createPayment appends exactly one PAYMENT transaction with
\* balanceAfter = max(0, totalBalance - amount), totalBalance being the
\* balance of the open tab the payment read; when that balance is within
\* EPSILON of zero (|newBalance| < EPSILON, as the source compares) the tab
\* becomes CLOSED with totalBalance 0 and closedAt = transactionDate, otherwise
\* the tab stays OPEN with totalBalance = the new balance.
C8_PaymentEffect ==
  [][\A p \in Procs :
       (Commits(p) /\ op[p].kind = "PAYMENT") =>
         LET id == tab[p].id
             newBalance == Max(0, tab[p].totalBalance - op[p].amount)
         IN /\ trxs' = Append(trxs, trx[p])
            /\ trx[p].transactionType = "PAYMENT"
            /\ trx[p].amount = op[p].amount
            /\ trx[p].balanceAfter = newBalance
            /\ IF Abs(newBalance) < EPSILON
               THEN /\ tabs'[id].status = "CLOSED" /\ tabs'[id].totalBalance = 0
                    /\ tabs'[id].closedAt = op[p].transactionDate
               ELSE tabs'[id].status = "OPEN" /\ tabs'[id].totalBalance = newBalance
    ]_vars

\* C9: createPayment, createAdjustment and markPaid for a customer with no
\* OPEN tab fail with the 404 error, create no tab and append no transaction.
C9_NoOpenTabNotFound ==
  [][\A p \in Procs :
       ((Leaves(p, "createPayment_find") \/ Leaves(p, "createAdjustment_find")
           \/ Leaves(p, "markPaid_find"))
        /\ ~HasOpenTab(op[p].customerId)) =>
         /\ pc'[p] = "idle"
         /\ result' = Err(404, "No open debt tab for customer")
         /\ tabs' = tabs /\ trxs' = trxs
         /\ nextTabId' = nextTabId /\ nextTrxId' = nextTrxId
         /\ created'[p] = NoTab /\ trx'[p] = NoTrx
    ]_vars

\* C9 witness: the 404 was returned while the only tabs are CLOSED.
C9_Witness ==
  /\ result = Err(404, "No open debt tab for customer")
  /\ TabIds # {}
  /\ \A i \in TabIds : tabs[i].status = "CLOSED"

OnlyClosed(c) == HasClosedTab(c) /\ ~HasOpenTab(c)

\* C10 as stated: a charge, payment or adjustment for a customer whose only
\* tab is CLOSED creates a fresh OPEN tab for the new transaction.
C10_AnyOperationOpensFreshTab ==
  [][\A p \in Procs :
       ((Leaves(p, "findOrCreateOpenTab") \/ Leaves(p, "createPayment_find")
           \/ Leaves(p, "createAdjustment_find"))
        /\ OnlyClosed(op[p].customerId)) =>
         /\ created'[p].status = "OPEN"
         /\ created'[p].customerId = op[p].customerId
         /\ created'[p].id \notin TabIds
    ]_vars

\* C10 amended: a charge for a customer whose only tab is CLOSED creates a
\* fresh OPEN tab, its transaction is recorded on that tab and committing it
\* leaves every existing tab untouched; a payment or adjustment for such a
\* customer is rejected with the 404 error and creates nothing.
C10_ChargeOpensFreshTab ==
  [][\A p \in Procs :
       /\ (Leaves(p, "findOrCreateOpenTab") /\ OnlyClosed(op[p].customerId)) =>
            /\ created'[p] = [id |-> nextTabId, customerId |-> op[p].customerId,
                              status |-> "OPEN", totalBalance |-> 0, closedAt |-> NULL]
            /\ nextTabId \notin TabIds
            /\ tab'[p] = created'[p]
            /\ tabs' = tabs
       /\ (Commits(p) /\ created[p] # NoTab) =>
            /\ created[p].id \notin TabIds
            /\ tabs'[created[p].id].status = "OPEN"
            /\ tabs'[created[p].id].totalBalance = op[p].amount
            /\ trxs' = Append(trxs, trx[p])
            /\ trx[p].debtTabId = created[p].id
            /\ trx[p].transactionType = "CHARGE"
            /\ \A i \in TabIds : tabs'[i] = tabs[i]
       /\ ((Leaves(p, "createPayment_find") \/ Leaves(p, "createAdjustment_find"))
           /\ OnlyClosed(op[p].customerId)) =>
            /\ pc'[p] = "idle"
            /\ result' = Err(404, "No open debt tab for customer")
            /\ tabs' = tabs /\ trxs' = trxs /\ nextTabId' = nextTabId
    ]_vars

\* C10 witness: a customer has a CLOSED tab and a newer OPEN tab that holds a
\* CHARGE.
C10_Witness ==
  \E i, j \in TabIds :
    /\ tabs[i].customerId = tabs[j].customerId
    /\ tabs[i].status = "CLOSED" /\ tabs[j].status = "OPEN" /\ i < j
    /\ \E k \in 1..Len(trxs) : trxs[k].debtTabId = j /\ trxs[k].transactionType = "CHARGE"

\* C11: createAdjustment on an OPEN tab is rejected with the 400 error, the
\* store unchanged, exactly when totalBalance + amount < -EPSILON, totalBalance
\* being the balance of the open tab the call read; an accepted adjustment
\* appends one ADJUSTMENT transaction with balanceAfter = max(0, totalBalance +
\* amount), sets the tab's totalBalance to that value and leaves the tab OPEN,
\* also when that value is 0.
C11_AdjustmentEffect ==
  [][\A p \in Procs :
       /\ (Leaves(p, "createAdjustment_find") /\ HasOpenTab(op[p].customerId)) =>
            LET rejected == pc'[p] = "idle"
            IN /\ rejected \/ pc'[p] = "createAdjustment_trx"
               /\ rejected =>
                    /\ result' = Err(400, "Adjustment would result in negative balance")
                    /\ \E t \in OpenTabs(op[p].customerId) :
                         t.totalBalance + op[p].amount < 0 - EPSILON
                    /\ tabs' = tabs /\ trxs' = trxs
               /\ ~rejected => tab'[p].totalBalance + op[p].amount >= 0 - EPSILON
       /\ (Commits(p) /\ op[p].kind = "ADJUSTMENT") =>
            LET id == tab[p].id
                newBalance == Max(0, tab[p].totalBalance + op[p].amount)
            IN /\ trxs' = Append(trxs, trx[p])
               /\ trx[p].transactionType = "ADJUSTMENT"
               /\ trx[p].amount = op[p].amount
               /\ trx[p].balanceAfter = newBalance
               /\ tabs'[id].totalBalance = newBalance
               /\ tabs'[id].status = "OPEN"
               /\ tabs'[id].closedAt = NULL
    ]_vars

\* The balance markPaid has left after its optional final payment f on a tab
\* of balance b.
Remaining(b, f) == IF f # NULL /\ f > 0 THEN Max(0, b - f) ELSE b

\* C12: markPaid on an OPEN tab, totalBalance being the balance of the open
\* tab the call read: with finalPayment > 0 it is rejected when finalPayment -
\* totalBalance > EPSILON, otherwise it creates one PAYMENT transaction with
\* balanceAfter = max(0, totalBalance - finalPayment); then it is rejected as a
\* whole, nothing persisted, when the remaining balance is > EPSILON, and
\* otherwise commits the tab as CLOSED with totalBalance 0 and closedAt =
\* transactionDate, together with exactly that PAYMENT transaction (none
\* without a final payment).
C12_MarkPaidEffect ==
  [][\A p \in Procs :
       LET f == op[p].finalPayment
           given == f # NULL /\ f > 0
       IN
       /\ (Leaves(p, "markPaid_find") /\ HasOpenTab(op[p].customerId)) =>
            IF pc'[p] = "idle"
            THEN /\ given
                 /\ \E t \in OpenTabs(op[p].customerId) : f - t.totalBalance > EPSILON
                 /\ result' = Err(400, "Final payment exceeds remaining balance")
                 /\ tabs' = tabs /\ trxs' = trxs
            ELSE /\ tab'[p] \in OpenTabs(op[p].customerId)
                 /\ given => f - tab'[p].totalBalance <= EPSILON
                 /\ pc'[p] = IF given THEN "markPaid_trx" ELSE "markPaid_update"
       /\ Leaves(p, "markPaid_trx") =>
            /\ trx'[p].transactionType = "PAYMENT"
            /\ trx'[p].debtTabId = tab[p].id
            /\ trx'[p].amount = f
            /\ trx'[p].balanceAfter = Max(0, tab[p].totalBalance - f)
            /\ trxs' = trxs
       /\ Leaves(p, "markPaid_update") =>
            IF Remaining(tab[p].totalBalance, f) > EPSILON
            THEN /\ pc'[p] = "idle"
                 /\ result' = Err(400, "Cannot close tab with non-zero balance")
                 /\ tabs' = tabs /\ trxs' = trxs
                 /\ trx'[p] = NoTrx /\ upd'[p] = NoTab
            ELSE /\ pc'[p] = "commit"
                 /\ given <=> trx[p] # NoTrx
       /\ (Commits(p) /\ op[p].kind = "MARKPAID") =>
            /\ Remaining(tab[p].totalBalance, f) <= EPSILON
            /\ tabs'[tab[p].id].status = "CLOSED"
            /\ tabs'[tab[p].id].totalBalance = 0
            /\ tabs'[tab[p].id].closedAt = op[p].transactionDate
            /\ trxs' = IF given THEN Append(trxs, trx[p]) ELSE trxs
            /\ given => trx[p].balanceAfter = Max(0, tab[p].totalBalance - f)
    ]_vars

\* C12 witness: a markPaid whose final payment equals the balance of the tab
\* has committed: the tab is CLOSED with balance 0 and the PAYMENT is in the
\* ledger with balanceAfter 0.
C12_Witness ==
  \E p \in Procs :
    /\ pc[p] = "audit" /\ op[p].kind = "MARKPAID"
    /\ op[p].finalPayment = tab[p].totalBalance /\ tab[p].totalBalance > EPSILON
    /\ tabs[tab[p].id].status = "CLOSED" /\ tabs[tab[p].id].totalBalance = 0
    /\ \E k \in 1..Len(trxs) : trxs[k] = trx[p] /\ trxs[k].balanceAfter = 0

\* Process p's call returns { transaction, tab } to its caller.
Succeeds(p) == pc[p] = "audit" /\ pc'[p] = "idle" /\ result'.status = 200

\* An audit entry keyed by the id of a DebtTransaction.
AuditedTrx(log, id) == \E a \in log : a.entity = "DebtTransaction" /\ a.entityId = id

\* C13 as stated: each of the four operations, on success, returns both a
\* transaction and a tab and has recorded an audit entry keyed by that
\* transaction's id, so the transaction it persisted has such an entry.
C13_AuditKeyedByTransaction ==
  [][\A p \in Procs :
       Succeeds(p) =>
         /\ result'.transactionId # 0 /\ result'.tabId # 0
         /\ AuditedTrx(auditLog', result'.transactionId)
         /\ trx[p] # NoTrx => AuditedTrx(auditLog', trx[p].id)
    ]_vars

\* C13 amended: charge, payment and adjustment, on success, return the
\* transaction they persisted and its tab and have recorded an audit entry
\* CREATE DebtTransaction keyed by that transaction's id; mark-paid returns
\* the tab it closed, and a transaction only when it made a final payment,
\* and has recorded an audit entry UPDATE DebtTab keyed by the tab's id: its
\* final PAYMENT transaction has no audit entry of its own.
C13_AuditPerOperation ==
  [][\A p \in Procs :
       Succeeds(p) =>
         /\ result'.tabId = tab[p].id /\ tab[p].id \in DOMAIN tabs
         /\ result'.transactionId = trx[p].id
         /\ trx[p] # NoTrx => \E k \in 1..Len(trxs) : trxs[k] = trx[p]
         /\ IF op[p].kind = "MARKPAID"
            THEN /\ trx[p] # NoTrx <=> (op[p].finalPayment # NULL /\ op[p].finalPayment > 0)
                 /\ AuditRow("UPDATE", "DebtTab", tab[p].id, UserId) \in auditLog'
                 /\ ~AuditedTrx(auditLog', trx[p].id)
            ELSE /\ trx[p] # NoTrx /\ trx[p].debtTabId = tab[p].id
                 /\ AuditRow("CREATE", "DebtTransaction", trx[p].id, UserId) \in auditLog'
    ]_vars

\* C13 witness: a mark-paid with a final payment has returned; its audit
\* entry is the tab's and its PAYMENT transaction is in the ledger.
C13_Witness ==
  /\ Quiet
  /\ result.status = 200 /\ result.message = "MARKPAID" /\ result.transactionId # 0
  /\ AuditRow("UPDATE", "DebtTab", result.tabId, UserId) \in auditLog
  /\ \E k \in 1..Len(trxs) : trxs[k].id = result.transactionId

\* The step in which a createCharge call is made, and its outcome.
ChargeCalled == calls' = calls + 1
ChargeFailed == pc' = pc
ChargeAccepted == \E p \in Procs : pc[p] = "idle" /\ pc'[p] = "findOrCreateOpenTab"

\* The customer has an override price that is set and strictly positive.
HasOverride(c) == customer[c].customUnitPrice # NULL /\ customer[c].customUnitPrice > 0

\* The text of a setting is a number: digits only.
IsNumeric(s) == s # NoSetting /\ s # <<>> /\ \A i \in 1..Len(s) : s[i] \in DOMAIN Digits

\* No number can be read from the setting (it is missing, empty or does not
\* start with a number) or the number read is <= 0.
NoGlobalPrice(s) ==
  \/ s = NoSetting \/ s = <<>>
  \/ ~parseFloat(s).finite
  \/ parseFloat(s).num <= 0

\* C14: createCharge fails with the 400 (ValidationError) when containers <=
\* 0; otherwise with the 404 (NotFoundError) when the customer does not exist,
\* with the 400 when the customer is inactive, and with the 500 (the
\* configuration error) when the customer has no override and no price can be
\* read from the setting; it fails in no other case, and a failed call
\* creates no tab, changes no tab and appends no transaction.
C14_ChargeFailures ==
  [][ChargeCalled =>
       LET c == request.customerId
           n == request.containers
           known == c \in DOMAIN customer
           expected ==
             IF n <= 0 THEN 400
             ELSE IF ~known THEN 404
             ELSE IF ~customer[c].active THEN 400
             ELSE IF ~HasOverride(c) /\ NoGlobalPrice(request.setting) THEN 500
             ELSE 0
       IN /\ expected # 0 => ChargeFailed /\ result'.status = expected
          /\ expected = 0 => ChargeAccepted
          /\ ChargeFailed =>
               /\ tabs' = tabs /\ trxs' = trxs /\ auditLog' = auditLog
               /\ nextTabId' = nextTabId /\ nextTrxId' = nextTrxId
               /\ created' = created /\ trx' = trx /\ upd' = upd
    ]_vars

\* C14 witness: a charge for the inactive customer was refused with the 400
\* and the ledger is as it was before the call.
C14_Witness ==
  /\ calls = 1 /\ Quiet
  /\ request.customerId = "c3" /\ request.containers > 0
  /\ result = Err(400, "Cannot record debt for inactive customer")
  /\ Len(trxs) <= 1 /\ nextTabId <= 2

\* C15: the unit price resolved for a charge is the customer's override when
\* it is set and strictly positive, otherwise the globally configured price;
\* the resolution fails with the 500 when the global price is missing,
\* non-numeric or <= 0.
C15_UnitPrice ==
  [][(ChargeCalled /\ request.containers > 0
        /\ request.customerId \in DOMAIN customer
        /\ customer[request.customerId].active) =>
       LET c == request.customerId
           s == request.setting
       IN IF HasOverride(c)
          THEN \E p \in Procs : /\ pc'[p] = "findOrCreateOpenTab" /\ pc[p] = "idle"
                                /\ unitPrice'[p] = customer[c].customUnitPrice
          ELSE IF IsNumeric(s) /\ ParseDigits(s, 0) > 0
          THEN \E p \in Procs : /\ pc'[p] = "findOrCreateOpenTab" /\ pc[p] = "idle"
                                /\ unitPrice'[p] = ParseDigits(s, 0)
          ELSE /\ ChargeFailed
               /\ result' = Err(500, "Unit price setting is missing or invalid")
    ]_vars

\* The balance after replaying the first k transactions of a log from 0 by
\* their declared type and amount.
RECURSIVE Replay(_, _)
Replay(log, k) ==
  IF k = 0 THEN 0
  ELSE LET t == log[k]
       IN Replay(log, k - 1)
            + (IF t.transactionType = "PAYMENT" THEN 0 - t.amount ELSE t.amount)

\* C16: for every tab, replaying its transactions in the order they were
\* appended, from balance 0, reproduces every recorded balanceAfter within
\* EPSILON.
C16_ReplayReproduces ==
  \A id \in TabIds :
    \A k \in 1..Len(TrxOf(id)) :
      Abs(Replay(TrxOf(id), k) - TrxOf(id)[k].balanceAfter) <= EPSILON

\* The tabs of a customer and the transactions on them, in a store.
TabsOfCustomer(tbs, c) == {tbs[i] : i \in {j \in DOMAIN tbs : tbs[j].customerId = c}}
TrxsOfCustomer(tbs, txs, c) ==
  SelectSeq(txs, LAMBDA t : \E i \in DOMAIN tbs : tbs[i].id = t.debtTabId
                                                   /\ tbs[i].customerId = c)

\* C17: a step of an operation for customer A leaves the tabs and the
\* transactions of every other customer B as they are, and it changes nothing
\* an operation in flight for B reads or waits for (the open tabs of B, the
\* rows that operation holds, whether its update has to wait), so the two
\* operations reach the same results and the same rows in every interleaving
\* as when one runs after the other.
C17_CustomersIndependent ==
  [][/\ \A q \in Procs :
          pc'[q] # pc[q] =>
            LET a == IF op[q].customerId # "" THEN op[q].customerId
                     ELSE op'[q].customerId
            IN \A c \in CustomerIds \ {a} :
                 /\ tabs' = tabs \/ TabsOfCustomer(tabs', c) = TabsOfCustomer(tabs, c)
                 /\ (tabs' = tabs /\ trxs' = trxs)
                      \/ TrxsOfCustomer(tabs', trxs', c) = TrxsOfCustomer(tabs, trxs, c)
                 /\ \A p \in Procs \ {q} :
                      op[p].customerId = c =>
                        /\ tabs' = tabs \/ OpenTabs(c)' = OpenTabs(c)
                        /\ tab'[p] = tab[p] /\ created'[p] = created[p]
                        /\ trx'[p] = trx[p] /\ upd'[p] = upd[p]
                        /\ tab[p] # NoTab =>
                             RowLocked(p, tab[p].id)' = RowLocked(p, tab[p].id)
     /\ pc' = pc => tabs' = tabs /\ trxs' = trxs
    ]_vars

\* C17 witness: an operation has committed for one customer while an operation
\* for another customer is inside its transaction, its tab read or created.
C17_Witness ==
  \E p, q \in Procs :
    /\ pc[q] = "audit" /\ pc[p] \in {"createCharge_update", "commit"}
    /\ op[p].customerId # op[q].customerId
    /\ tab[p] # NoTab /\ tab[q].id # tab[p].id

\* C18: at most one Sale exists per customer per calendar day, whatever the
\* createSale calls made and however they interleave: a createSale for a
\* customer and day that already has a sale updates it and adds no row.
C18_OneSalePerCustomerPerDay ==
  \A s1, s2 \in SaleRows :
    (s1.customerId = s2.customerId /\ s1.date.day = s2.date.day) => s1.id = s2.id

\* C19: at most 3 users exist at any time, whatever the createUser calls made
\* and however they interleave.
C19_AtMostThreeUsers == Cardinality(users) <= MAX_USERS

\* C20: an accepted createCharge appends exactly one CHARGE transaction with
\* amount = containers x unitPrice and balanceAfter = previous totalBalance +
\* amount (the balance of the tab the call found or created), sets the tab's
\* totalBalance to that same value and leaves the tab OPEN.
C20_ChargeEffect ==
  [][\A p \in Procs :
       (Commits(p) /\ op[p].kind = "CHARGE") =>
         LET id == tab[p].id
             amount == op[p].containers * unitPrice[p]
             newBalance == tab[p].totalBalance + amount
         IN /\ trxs' = Append(trxs, trx[p])
            /\ trx[p].transactionType = "CHARGE"
            /\ trx[p].debtTabId = id
            /\ trx[p].amount = amount
            /\ trx[p].balanceAfter = newBalance
            /\ tabs'[id].totalBalance = newBalance
            /\ tabs'[id].status = "OPEN"
            /\ tabs'[id].closedAt = NULL
    ]_vars

\* C21: the audit write is fire-and-forget: after an operation's transaction
\* has committed, the step that writes the audit entry leaves the ledger as
\* committed and returns success to the caller whether the write succeeds or
\* fails; and the audit write made inside a transaction (the new tab's entry)
\* never ends the call.
C21_AuditFireAndForget ==
  [][\A p \in Procs :
       /\ Leaves(p, "audit") =>
            /\ tabs' = tabs /\ trxs' = trxs
            /\ result'.status = 200
       /\ Leaves(p, "findOrCreateOpenTab_audit") => pc'[p] = "createCharge_trx"
    ]_vars

\* The reason is empty or white space only.
IsBlank(r) == \A i \in 1..Len(r) : r[i] = " "

AdjustmentCalled == calls' = calls + 1
AdjustmentFailed == pc' = pc
AdjustmentAccepted ==
  \E p \in Procs : pc[p] = "idle" /\ pc'[p] = "createAdjustment_find"

\* C22: createAdjustment is rejected with the 400 when amount = 0 or when the
\* reason is blank, with no tab read (the call goes no further) or changed;
\* with a reason that is not blank every non-zero amount passes the amount
\* check.
C22_AdjustmentValidation ==
  [][AdjustmentCalled =>
       LET invalid == request.amount = 0 \/ IsBlank(request.reason)
       IN /\ invalid => AdjustmentFailed /\ result'.status = 400
          /\ ~invalid => AdjustmentAccepted
          /\ AdjustmentFailed =>
               /\ tabs' = tabs /\ trxs' = trxs /\ auditLog' = auditLog
               /\ tab' = tab /\ trx' = trx /\ upd' = upd
    ]_vars

\* C23: every persisted transaction has the shape of its type: a CHARGE has
\* containers > 0 and unitPrice > 0 and no adjustmentReason; a PAYMENT has
\* containers, unitPrice and adjustmentReason null; an ADJUSTMENT has
\* containers and unitPrice null and an adjustmentReason that is not blank;
\* every transaction has an enteredById.
C23_TransactionShape ==
  \A k \in 1..Len(trxs) :
    LET t == trxs[k] IN
      /\ t.transactionType \in {"CHARGE", "PAYMENT", "ADJUSTMENT"}
      /\ t.transactionType = "CHARGE" =>
           /\ t.containers # NULL /\ t.containers > 0
           /\ t.unitPrice # NULL /\ t.unitPrice > 0
           /\ t.adjustmentReason = NoReason
      /\ t.transactionType = "PAYMENT" =>
           /\ t.containers = NULL /\ t.unitPrice = NULL
           /\ t.adjustmentReason = NoReason
      /\ t.transactionType = "ADJUSTMENT" =>
           /\ t.containers = NULL /\ t.unitPrice = NULL
           /\ t.adjustmentReason # NoReason
           /\ ~IsBlank(t.adjustmentReason)
      /\ t.enteredById # ""

\* C23 witness: a charge, a payment and an adjustment are all persisted.
C23_Witness ==
  /\ \E k \in 1..Len(trxs) : trxs[k].transactionType = "ADJUSTMENT"
  /\ \E k \in 1..Len(trxs) : trxs[k].transactionType = "PAYMENT"
  /\ \E k \in 1..Len(trxs) : trxs[k].transactionType = "CHARGE"

\* s is a prefix of t.
IsPrefix(s, t) == Len(s) <= Len(t) /\ \A k \in 1..Len(s) : t[k] = s[k]

\* C24: transactions are append-only: a persisted transaction keeps its
\* debtTabId, transactionType, amount and balanceAfter and is never removed,
\* and the persisted transactions of each tab only grow at the end.
C24_AppendOnly ==
  [][/\ \A k \in 1..Len(trxs) :
          \E j \in 1..Len(trxs') :
            /\ trxs'[j].id = trxs[k].id
            /\ trxs'[j].debtTabId = trxs[k].debtTabId
            /\ trxs'[j].transactionType = trxs[k].transactionType
            /\ trxs'[j].amount = trxs[k].amount
            /\ trxs'[j].balanceAfter = trxs[k].balanceAfter
     /\ trxs' # trxs =>
          \A id \in 1..nextTabId :
            IsPrefix(SelectSeq(trxs, LAMBDA t : t.debtTabId = id),
                     SelectSeq(trxs', LAMBDA t : t.debtTabId = id))
    ]_vars

\* C24 witness: a tab holds three transactions, two of them appended by later
\* operations.
C24_Witness ==
  \E id \in TabIds : Len(TrxOf(id)) >= 3 /\ Quiet

\* The sequence h is ordered by transactionDate and, among rows of equal
\* transactionDate, by createdAt (the order of the ids), each in one
\* direction, so that the place of every row is determined.
OrderedByDateThenCreated(h) ==
  /\ \/ \A i, j \in DOMAIN h : i < j => h[i].transactionDate >= h[j].transactionDate
     \/ \A i, j \in DOMAIN h : i < j => h[i].transactionDate <= h[j].transactionDate
  /\ \/ \A i, j \in DOMAIN h :
          (i < j /\ h[i].transactionDate = h[j].transactionDate) => h[i].id > h[j].id
     \/ \A i, j \in DOMAIN h :
          (i < j /\ h[i].transactionDate = h[j].transactionDate) => h[i].id < h[j].id

\* C25: the history getCustomerDebtHistory returns holds the transactions of
\* all the customer's tabs it returns, each once, ordered by transactionDate
\* and, among transactions of equal transactionDate, by createdAt.
C25_DebtHistory ==
  [][(history'.done /\ ~history.done) =>
       LET h == history'.transactions
           tabIds == {history'.tabs[i].id : i \in DOMAIN history'.tabs}
       IN /\ {h[i] : i \in DOMAIN h}
               = {trxs[k] : k \in {k \in DOMAIN trxs : trxs[k].debtTabId \in tabIds}}
          /\ \A i, j \in DOMAIN h : i # j => h[i] # h[j]
          /\ \A i \in DOMAIN history'.tabs :
               history'.tabs[i].customerId = history'.customerId
          /\ OrderedByDateThenCreated(h)
    ]_vars

\* C26: every started ledger operation eventually commits or is rejected,
\* whatever the other operations do: a call under way always comes to its
\* commit or to its return.
C26_OperationsTerminate ==
  \A p \in Procs :
    (pc[p] \notin {"idle", "audit"}) ~> (pc[p] \in {"idle", "audit"})

\* C26 witness: an operation waits at its update for the row another
\* operation on the same tab has written and not yet released.
C26_Witness ==
  \E p \in Procs :
    /\ pc[p] \in {"createCharge_update", "createPayment_update",
                  "createAdjustment_update", "markPaid_update"}
    /\ tab[p] # NoTab
    /\ RowLocked(p, tab[p].id)

\* C27: in every reachable state every CLOSED tab has totalBalance = 0 and a
\* closedAt that is not null, and every OPEN tab has closedAt = null.
C27_ClosedMeansZero ==
  \A id \in TabIds :
    /\ tabs[id].status \in {"OPEN", "CLOSED"}
    /\ tabs[id].status = "CLOSED" =>
         tabs[id].totalBalance = 0 /\ tabs[id].closedAt # NULL
    /\ tabs[id].status = "OPEN" => tabs[id].closedAt = NULL

\* C28: a transaction is only ever appended to a tab that is OPEN when the
\* appending operation commits (or that this operation creates): no step
\* gives a CLOSED tab a transaction.
C28_NoAppendToClosed ==
  [][/\ \A id \in TabIds :
          tabs[id].status = "CLOSED" =>
            Len(SelectSeq(trxs', LAMBDA t : t.debtTabId = id)) = Len(TrxOf(id))
     /\ \A p \in Procs :
          (Commits(p) /\ trx[p] # NoTrx) =>
            \/ created[p].id = trx[p].debtTabId
            \/ /\ trx[p].debtTabId \in TabIds
               /\ tabs[trx[p].debtTabId].status = "OPEN"
    ]_vars

\* The sum of the amounts of the transactions of type ty in the log, and
\* their number.
RECURSIVE SumOf(_, _)
SumOf(log, ty) ==
  IF log = <<>> THEN 0
  ELSE (IF Head(log).transactionType = ty THEN Head(log).amount ELSE 0)
         + SumOf(Tail(log), ty)

CountOf(log, ty) == Len(SelectSeq(log, LAMBDA t : t.transactionType = ty))

\* C29: for every tab the sum of its PAYMENT amounts never exceeds the sum of
\* its CHARGE amounts plus the signed sum of its ADJUSTMENT amounts by more
\* than EPSILON for each accepted payment and adjustment.
C29_NotPaidTwice ==
  \A id \in TabIds :
    LET log == TrxOf(id)
    IN SumOf(log, "PAYMENT") <=
         SumOf(log, "CHARGE") + SumOf(log, "ADJUSTMENT")
           + EPSILON * (CountOf(log, "PAYMENT") + CountOf(log, "ADJUSTMENT"))

\* C30: an audit entry recording the creation of a DebtTab exists only for a
\* tab that is persisted, or that a transaction still under way has created:
\* once the transaction that created a tab has rolled back, no audit entry
\* for that tab remains.
C30_AuditedTabExists ==
  \A a \in auditLog :
    (a.entity = "DebtTab" /\ a.action = "CREATE") =>
      \/ a.entityId \in TabIds
      \/ \E p \in Procs : created[p].id = a.entityId

====
